---- MODULE Spec2Model ----
(***************************************************************************)
(* A model of shunting-yard.c: the scanner loop of shunting_yard(), the    *)
(* operator resolution, apply_operator(), compare_operators(), is_unary()  *)
(* and error(), with errno as the only state that outlives a call.         *)
(*                                                                         *)
(* A C string is a sequence of one-character strings; str[k+1] is the C    *)
(* character str[k].  The input is read one character per loop iteration,  *)
(* so `str` holds the characters read so far and the loop index i is       *)
(* Len(str).  The terminating NUL and the newline are characters too.      *)
(*                                                                         *)
(* A double is modelled by the exact rational <<n, d>> it stands for       *)
(* (d > 0, lowest terms) as long as it stays in range; every other double  *)
(* (an infinity, a NaN, an irrational or out-of-range result) is the one   *)
(* absorbing value Untracked.                                              *)
(***************************************************************************)
EXTENDS Integers, Sequences, FiniteSets

VARIABLES
    str,          \* the characters of the input read so far
    token_pos,    \* start of the open operand span, or -1
    paren_depth,  \* number of open parentheses
    paren_pos,    \* column kept for the unclosed-parenthesis error
    prev_chr,     \* the previous non-blank character
    operands,     \* operand stack (C strings)
    operators,    \* operator stack (items: val, flags)
    result,       \* the local `double result`
    errno,        \* the C errno: the only state that outlives a call
    pc,           \* "scan", "eos", "drain", "done"
    ret,          \* the value returned by the call, once pc = "done"
    errtype,      \* the type passed to error() in this call, else "SUCCESS"
    errcol,       \* the col_num passed to error() in this call
    fault,        \* a pop or top was executed on an empty stack
    log,          \* the calls of apply_operator made in this call
    pushed,       \* operands pushed from the input in this call
    budget,       \* characters the environment may still supply
    calls_left,   \* further calls of shunting_yard the caller may make
    seen          \* outcome of the first completed call on each input

vars == <<str, token_pos, paren_depth, paren_pos, prev_chr, operands,
          operators, result, errno, pc, ret, errtype, errcol, fault, log,
          pushed, budget, calls_left, seen>>

(***************************************************************************)
(* Bounds of the exploration.                                              *)
(***************************************************************************)
MaxLen == 5        \* characters of input in a single-call run
MaxCallChars == 3  \* characters of input over all calls of a multi-call run
MaxCalls == 3      \* calls in a multi-call run
ValLimit == 10000  \* largest numerator or denominator tracked exactly

NUL == "NUL"
Digits == {"3"}
Alphabet == Digits \cup {".", " ", "+", "-", "*", "/", "^", "!", "(", ")", "#"}

NO_COL_NUM == -2

(***************************************************************************)
(* Doubles.                                                                *)
(***************************************************************************)
Untracked == <<0, 0>>
Uninit == <<0, -1>>
Zero == <<0, 1>>
One == <<1, 1>>
\* What an uninitialized double may hold when it is read.
Indeterminate == {Zero, <<7, 1>>}

Abs(n) == IF n < 0 THEN -n ELSE n

RECURSIVE Gcd(_, _)
Gcd(a, b) == IF b = 0 THEN a ELSE Gcd(b, a % b)

Norm(n, d) ==
    IF d = 0 THEN Untracked
    ELSE LET s == IF d < 0 THEN -1 ELSE 1
             g == Gcd(Abs(n), Abs(d))
             nn == (s * n) \div g
             dd == (s * d) \div g
         IN IF Abs(nn) > ValLimit \/ dd > ValLimit THEN Untracked
            ELSE <<nn, dd>>

Tracked(v) == v[2] > 0

Add(a, b) == IF Tracked(a) /\ Tracked(b)
             THEN Norm(a[1] * b[2] + b[1] * a[2], a[2] * b[2]) ELSE Untracked
Neg(a) == IF Tracked(a) THEN <<-a[1], a[2]>> ELSE Untracked
Sub(a, b) == Add(a, Neg(b))
Mul(a, b) == IF Tracked(a) /\ Tracked(b)
             THEN Norm(a[1] * b[1], a[2] * b[2]) ELSE Untracked
\* IEEE division by zero gives an infinity or a NaN: not tracked.
Div(a, b) == IF Tracked(a) /\ Tracked(b)
             THEN Norm(a[1] * b[2], a[2] * b[1]) ELSE Untracked

RECURSIVE PowAcc(_, _, _)
PowAcc(acc, a, e) ==
    IF e = 0 \/ ~Tracked(acc) THEN acc ELSE PowAcc(Mul(acc, a), a, e - 1)

\* pow(a, b) for an integral b; any other exponent is not tracked.
Pow(a, b) ==
    IF ~Tracked(a) \/ ~Tracked(b) \/ b[2] # 1 THEN Untracked
    ELSE IF b[1] = 0 \/ a = One THEN One
    ELSE IF a = Zero THEN (IF b[1] > 0 THEN Zero ELSE Untracked)
    ELSE IF a = <<-1, 1>> THEN (IF b[1] % 2 = 0 THEN One ELSE a)
    ELSE IF b[1] > 0 THEN PowAcc(One, a, b[1])
    ELSE Div(One, PowAcc(One, a, -b[1]))

RECURSIVE FactAcc(_, _)
FactAcc(acc, n) ==
    IF n = 0 \/ ~Tracked(acc) THEN acc ELSE FactAcc(Mul(acc, <<n, 1>>), n - 1)

\* tgamma(v + 1): the factorial of a non-negative integer, else not tracked.
Gamma1(v) ==
    IF Tracked(v) /\ v[2] = 1 /\ v[1] >= 0 THEN FactAcc(One, v[1])
    ELSE Untracked

(***************************************************************************)
(* C strings.  A string is either text (a sequence of characters) or the   *)
(* "%a" rendering of a double made by num_to_str; strtod reads both.       *)
(***************************************************************************)
Text(chars) == [kind |-> "text", txt |-> chars, num |-> Zero]

num_to_str(num) == [kind |-> "%a", txt |-> <<>>, num |-> num]

DigitVal(c) ==
    CASE c = "0" -> 0 [] c = "1" -> 1 [] c = "2" -> 2 [] c = "3" -> 3
      [] c = "4" -> 4 [] c = "5" -> 5 [] c = "6" -> 6 [] c = "7" -> 7
      [] c = "8" -> 8 [] c = "9" -> 9

AllDigits == {"0", "1", "2", "3", "4", "5", "6", "7", "8", "9"}

\* The digits of a decimal literal read as one integer, and the number of
\* digits after the point.
RECURSIVE DecDigits(_, _)
DecDigits(txt, acc) ==
    IF txt = <<>> THEN acc
    ELSE IF Head(txt) = "." THEN DecDigits(Tail(txt), acc)
    ELSE DecDigits(Tail(txt), 10 * acc + DigitVal(Head(txt)))

RECURSIVE FracLen(_)
FracLen(txt) ==
    IF txt = <<>> THEN 0
    ELSE IF Head(txt) = "." THEN Len(txt) - 1
    ELSE FracLen(Tail(txt))

RECURSIVE Pow10(_)
Pow10(k) == IF k = 0 THEN 1 ELSE 10 * Pow10(k - 1)

\* strtod of a C string, which strtod_unalloc then frees.
strtod_unalloc(s) ==
    IF s.kind = "%a" THEN s.num
    ELSE Norm(DecDigits(s.txt, 0), Pow10(FracLen(s.txt)))

substr(s, start, len) == SubSeq(s, start + 1, start + len)

RECURSIVE rtrim(_)
rtrim(s) ==
    IF s # <<>> /\ s[Len(s)] = " " THEN rtrim(SubSeq(s, 1, Len(s) - 1)) ELSE s

Count(s, c) == Cardinality({k \in 1..Len(s) : s[k] = c})

is_operand(c) == c \in AllDigits \cup {"."}

is_operator(c) == c \in {"+", "-", "*", "/", "^", "!"}

(***************************************************************************)
(* Stacks of stack_item (val, flags).  A pop or a top of an empty stack    *)
(* reads memory that holds no item: it is reported in `fault`.             *)
(***************************************************************************)
NoItem == [val |-> [kind |-> "%a", txt |-> <<NUL>>, num |-> Untracked],
           flags |-> FALSE]

stack_is_empty(s) == Len(s) = 0

stack_push(s, val, flags) == Append(s, [val |-> val, flags |-> flags])

stack_push_unalloc(s, val) == Append(s, [val |-> val, flags |-> FALSE])

stack_top_item(s) == IF Len(s) = 0 THEN NoItem ELSE s[Len(s)]

stack_top(s) == stack_top_item(s).val

stack_pop_item(s) ==
    [item |-> stack_top_item(s),
     rest |-> IF Len(s) = 0 THEN s ELSE SubSeq(s, 1, Len(s) - 1),
     fault |-> Len(s) = 0]

(***************************************************************************)
(* compare_operators, is_unary, apply_operator.                            *)
(***************************************************************************)
op_order_len == 4
op_order == <<{"^"}, {"*", "/"}, {"+", "-"}, {"("}>>

\* strpbrk(op, op_order[i]): some character of op is in class i.
strpbrk(op, class) == \E k \in 1..Len(op.txt) : op.txt[k] \in class

\* The rank the loop leaves: the last class that matches, or -1.
OpRank(op) ==
    LET hits == {k \in 0..(op_order_len - 1) : strpbrk(op, op_order[k + 1])}
    IN IF hits = {} THEN -1 ELSE CHOOSE k \in hits : \A h \in hits : h <= k

compare_operators(op1, op2) == OpRank(op1) < OpRank(op2)

\* is_unary without the special case for postfix operators.
is_unary_NoPostfixCase(operator, prev) ==
    \/ is_operator(prev)
    \/ prev = NUL
    \/ ((is_operand(prev) \/ prev = ")") /\ operator = "!")

is_unary(operator, prev) ==
    IF prev = "!" /\ operator # "!" THEN FALSE
    ELSE \/ is_operator(prev)
         \/ prev = NUL
         \/ ((is_operand(prev) \/ prev = ")") /\ operator = "!")

\* Lines 221-237: the unary branch, after val2 was popped (pop p2).
ApplyUnary(operator, p2) ==
    LET val2 == strtod_unalloc(p2.item.val)
    IN CASE operator = "+" ->
              [ok |-> TRUE, fault |-> p2.fault,
               operands |-> stack_push_unalloc(p2.rest, num_to_str(val2))]
         [] operator = "-" ->
              [ok |-> TRUE, fault |-> p2.fault,
               operands |-> stack_push_unalloc(p2.rest, num_to_str(Neg(val2)))]
         [] operator = "!" ->
              [ok |-> TRUE, fault |-> p2.fault,
               operands |-> stack_push_unalloc(p2.rest,
                                               num_to_str(Gamma1(val2)))]
         [] OTHER ->
              [ok |-> FALSE, fault |-> p2.fault, operands |-> p2.rest]

BinaryResult(operator, val1, val2, garbage) ==
    CASE operator = "+" -> Add(val1, val2)
      [] operator = "-" -> Sub(val1, val2)
      [] operator = "*" -> Mul(val1, val2)
      [] operator = "/" -> Div(val1, val2)
      [] operator = "^" -> Pow(val1, val2)
      [] OTHER -> garbage

\* The binary branch without its second underflow check.
ApplyBinary_NoRecheck(operator, p2, garbage) ==
    LET p1 == stack_pop_item(p2.rest)
        val2 == strtod_unalloc(p2.item.val)
        val1 == strtod_unalloc(p1.item.val)
        res == BinaryResult(operator, val1, val2, garbage)
    IN [ok |-> TRUE, fault |-> p2.fault \/ p1.fault,
        operands |-> stack_push_unalloc(p1.rest, num_to_str(res))]

\* The binary branch reading val1 from the top without popping it.
ApplyBinary_KeepsVal1(operator, p2, garbage) ==
    IF stack_is_empty(p2.rest)
    THEN [ok |-> FALSE, fault |-> p2.fault, operands |-> p2.rest]
    ELSE LET val2 == strtod_unalloc(p2.item.val)
             val1 == strtod_unalloc(stack_top(p2.rest))
             res == BinaryResult(operator, val1, val2, garbage)
         IN [ok |-> TRUE, fault |-> p2.fault,
             operands |-> stack_push_unalloc(p2.rest, num_to_str(res))]

\* Lines 240-254: the binary branch, after val2 was popped (pop p2).
\* `garbage` is what the uninitialized local `result` holds when no case of
\* the switch assigns it.
ApplyBinary(operator, p2, garbage) ==
    IF stack_is_empty(p2.rest)
    THEN [ok |-> FALSE, fault |-> p2.fault, operands |-> p2.rest]
    ELSE LET p1 == stack_pop_item(p2.rest)
             val2 == strtod_unalloc(p2.item.val)
             val1 == strtod_unalloc(p1.item.val)
             res == BinaryResult(operator, val1, val2, garbage)
         IN [ok |-> TRUE, fault |-> p2.fault \/ p1.fault,
             operands |-> stack_push_unalloc(p1.rest, num_to_str(res))]

apply_operator(operator, unary, stack, garbage) ==
    IF stack_is_empty(stack)
    THEN [ok |-> FALSE, operands |-> stack, fault |-> FALSE]
    ELSE LET p2 == stack_pop_item(stack)
         IN IF unary THEN ApplyUnary(operator, p2)
            ELSE ApplyBinary(operator, p2, garbage)

(***************************************************************************)
(* shunting_yard: one action per loop iteration, by the class of the       *)
(* character read, then the end-of-scan steps.                             *)
(***************************************************************************)
Remember(input, value, code) ==
    [k \in DOMAIN seen \cup {input} |->
        IF k \in DOMAIN seen THEN seen[k]
        ELSE [result |-> value, errno |-> code]]

\* The label `exit`: both stacks are freed and `result` is returned, after
\* error(type, col, str) when type is an error.  An unassigned `result` is
\* returned as whatever its storage holds.
Exit(input, type, col, res) ==
    /\ str' = input
    /\ errno' = IF type = "SUCCESS" THEN errno ELSE type
    /\ errtype' = type
    /\ errcol' = col
    /\ result' = res
    /\ operands' = <<>>
    /\ operators' = <<>>
    /\ pc' = "done"
    /\ \E v \in (IF res = Uninit THEN Indeterminate ELSE {res}) :
          /\ ret' = v
          /\ seen' = Remember(input, v, errno')

\* Lines 97-113: the operand span that a non-operand character closes.
EndOperand ==
    IF token_pos = -1
    THEN [bad |-> FALSE, operands |-> operands, pushed |-> pushed]
    ELSE LET operand == rtrim(substr(str, token_pos, Len(str) - token_pos))
         IN [bad |-> \/ operand = <<".">>
                     \/ Count(operand, " ") > 0
                     \/ Count(operand, ".") > 1,
             operands |-> stack_push_unalloc(operands, Text(operand)),
             pushed |-> pushed + 1]

\* One call of apply_operator: its arguments, its return value and where
\* shunting_yard made it ("scan" or "drain").
Entry(op, unary, ok, at) == [op |-> op, unary |-> unary, ok |-> ok, at |-> at]

ScanSpace ==
    /\ pc = "scan" /\ budget > 0
    /\ str' = Append(str, " ")
    /\ budget' = budget - 1
    /\ UNCHANGED <<token_pos, paren_depth, paren_pos, prev_chr, operands,
                   operators, result, errno, pc, ret, errtype, errcol, fault,
                   log, pushed, calls_left, seen>>

ScanOperand ==
    /\ pc = "scan" /\ budget > 0
    /\ \E c \in {a \in Alphabet : is_operand(a)} :
          /\ str' = Append(str, c)
          /\ prev_chr' = c
    /\ token_pos' = IF token_pos = -1 THEN Len(str) ELSE token_pos
    /\ budget' = budget - 1
    /\ UNCHANGED <<paren_depth, paren_pos, operands, operators, result,
                   errno, pc, ret, errtype, errcol, fault, log, pushed,
                   calls_left, seen>>

ScanOperator ==
    /\ pc = "scan" /\ budget > 0
    /\ budget' = budget - 1
    /\ UNCHANGED <<paren_depth, paren_pos, calls_left>>
    /\ \E c \in {a \in Alphabet : is_operator(a)}, garbage \in Indeterminate :
        LET i == Len(str)
            input == Append(str, c)
            chr_str == Text(<<c>>)
            e == EndOperand
            unary == is_unary(c, prev_chr)
            p == stack_pop_item(operators)
            r == apply_operator(p.item.val.txt[1], p.item.flags, e.operands,
                                garbage)
        IN IF e.bad
           THEN /\ Exit(input, "ERROR_SYNTAX_OPERAND", token_pos, result)
                /\ UNCHANGED <<token_pos, prev_chr, fault, log, pushed>>
           ELSE IF /\ ~stack_is_empty(operators)
                   /\ ((unary /\ stack_top_item(operators).flags) \/ ~unary)
                   /\ compare_operators(stack_top(operators), chr_str)
           THEN /\ log' = Append(log, Entry(p.item.val.txt[1], p.item.flags, r.ok, pc))
                /\ fault' = (fault \/ p.fault \/ r.fault)
                /\ pushed' = e.pushed
                /\ token_pos' = -1
                /\ IF ~r.ok
                   THEN /\ Exit(input, "ERROR_SYNTAX", i, result)
                        /\ UNCHANGED prev_chr
                   ELSE /\ str' = input
                        /\ operands' = r.operands
                        /\ operators' = stack_push(p.rest, chr_str, unary)
                        /\ prev_chr' = c
                        /\ UNCHANGED <<result, errno, pc, ret, errtype,
                                       errcol, seen>>
           ELSE /\ str' = input
                /\ operands' = e.operands
                /\ operators' = stack_push(operators, chr_str, unary)
                /\ pushed' = e.pushed
                /\ token_pos' = -1
                /\ prev_chr' = c
                /\ UNCHANGED <<result, errno, pc, ret, errtype, errcol,
                               fault, log, seen>>

\* The column of every left parenthesis, whatever the depth.
NewParenPos_Always(depth, pos, i) == i

\* Line 141: the column kept for the unclosed-parenthesis error.
NewParenPos(depth, pos, i) == IF depth = 1 THEN i ELSE pos

ScanLeftParen ==
    /\ pc = "scan" /\ budget > 0
    /\ budget' = budget - 1
    /\ UNCHANGED <<calls_left, fault, log>>
    /\ LET i == Len(str)
           input == Append(str, "(")
           e == EndOperand
       IN IF e.bad
          THEN /\ Exit(input, "ERROR_SYNTAX_OPERAND", token_pos, result)
               /\ UNCHANGED <<token_pos, prev_chr, pushed, paren_depth,
                              paren_pos>>
          ELSE /\ str' = input
               /\ operands' = e.operands
               /\ pushed' = e.pushed
               /\ token_pos' = -1
               /\ operators' = stack_push(operators, Text(<<"(">>), FALSE)
               /\ paren_depth' = paren_depth + 1
               /\ paren_pos' = NewParenPos(paren_depth', paren_pos, i)
               /\ prev_chr' = "("
               /\ UNCHANGED <<result, errno, pc, ret, errtype, errcol, seen>>

\* Lines 149-164: pop and apply operators until the left paren is reached.
RECURSIVE PopToLeftParen(_, _, _, _)
PopToLeftParen(ops, opnds, lg, garbage) ==
    IF stack_is_empty(ops)
    THEN [ok |-> TRUE, found |-> FALSE, operators |-> ops,
          operands |-> opnds, log |-> lg, fault |-> FALSE]
    ELSE IF stack_top(ops).txt[1] = "("
    THEN [ok |-> TRUE, found |-> TRUE, operators |-> stack_pop_item(ops).rest,
          operands |-> opnds, log |-> lg, fault |-> FALSE]
    ELSE LET p == stack_pop_item(ops)
             r == apply_operator(p.item.val.txt[1], p.item.flags, opnds,
                                 garbage)
             lg2 == Append(lg, Entry(p.item.val.txt[1], p.item.flags, r.ok, pc))
         IN IF ~r.ok
            THEN [ok |-> FALSE, found |-> FALSE, operators |-> p.rest,
                  operands |-> r.operands, log |-> lg2, fault |-> r.fault]
            ELSE LET n == PopToLeftParen(p.rest, r.operands, lg2, garbage)
                 IN [n EXCEPT !.fault = n.fault \/ r.fault]

ScanRightParen ==
    /\ pc = "scan" /\ budget > 0
    /\ budget' = budget - 1
    /\ UNCHANGED <<calls_left, paren_pos>>
    /\ \E garbage \in Indeterminate :
        LET i == Len(str)
            input == Append(str, ")")
            e == EndOperand
            n == PopToLeftParen(operators, e.operands, log, garbage)
        IN IF e.bad
           THEN /\ Exit(input, "ERROR_SYNTAX_OPERAND", token_pos, result)
                /\ UNCHANGED <<token_pos, prev_chr, pushed, paren_depth,
                               fault, log>>
           ELSE IF paren_depth = 0
           THEN /\ Exit(input, "ERROR_RIGHT_PAREN", i, result)
                /\ pushed' = e.pushed
                /\ token_pos' = -1
                /\ UNCHANGED <<prev_chr, paren_depth, fault, log>>
           ELSE /\ pushed' = e.pushed
                /\ token_pos' = -1
                /\ log' = n.log
                /\ fault' = (fault \/ n.fault)
                /\ paren_depth' = IF n.found THEN paren_depth - 1
                                  ELSE paren_depth
                /\ IF ~n.ok
                   THEN /\ Exit(input, "ERROR_SYNTAX", i, result)
                        /\ UNCHANGED prev_chr
                   ELSE /\ str' = input
                        /\ operands' = n.operands
                        /\ operators' = n.operators
                        /\ prev_chr' = ")"
                        /\ UNCHANGED <<result, errno, pc, ret, errtype,
                                       errcol, seen>>

ScanUnrecognized ==
    /\ pc = "scan" /\ budget > 0
    /\ budget' = budget - 1
    /\ UNCHANGED <<calls_left, paren_depth, paren_pos, prev_chr, fault, log>>
    /\ \E c \in {a \in Alphabet : /\ ~is_operand(a) /\ ~is_operator(a)
                                  /\ a \notin {" ", "(", ")", NUL, "\n"}} :
        LET i == Len(str)
            input == Append(str, c)
            e == EndOperand
        IN IF e.bad
           THEN /\ Exit(input, "ERROR_SYNTAX_OPERAND", token_pos, result)
                /\ UNCHANGED <<token_pos, pushed>>
           ELSE /\ Exit(input, "ERROR_UNRECOGNIZED", i, result)
                /\ pushed' = e.pushed
                /\ token_pos' = -1

\* The iteration that reads the terminating NUL, or a newline (break).
ScanEnd ==
    /\ pc = "scan"
    /\ UNCHANGED <<calls_left, paren_depth, paren_pos, fault, log>>
    /\ \E c \in {NUL} \cup (IF budget > 0 THEN {"\n"} ELSE {}) :
        LET input == Append(str, c)
            e == EndOperand
        IN /\ budget' = IF c = NUL THEN budget ELSE budget - 1
           /\ IF e.bad
              THEN /\ Exit(input, "ERROR_SYNTAX_OPERAND", token_pos, result)
                   /\ UNCHANGED <<token_pos, prev_chr, pushed>>
              ELSE /\ str' = input
                   /\ operands' = e.operands
                   /\ pushed' = e.pushed
                   /\ token_pos' = -1
                   /\ prev_chr' = IF c = NUL THEN c ELSE prev_chr
                   /\ pc' = "eos"
                   /\ UNCHANGED <<operators, result, errno, ret, errtype,
                                  errcol, seen>>

\* The end of the scan without the check of the depth.
CheckParen_NoDepthCheck ==
    /\ pc = "eos"
    /\ pc' = "drain"
    /\ UNCHANGED <<str, operands, operators, result, errno, ret, errtype,
                   errcol, seen>>
    /\ UNCHANGED <<token_pos, paren_depth, paren_pos, prev_chr, fault, log,
                   pushed, budget, calls_left>>

\* Lines 177-180.
CheckParen ==
    /\ pc = "eos"
    /\ IF paren_depth # 0
       THEN Exit(str, "ERROR_LEFT_PAREN", paren_pos, result)
       ELSE /\ pc' = "drain"
            /\ UNCHANGED <<str, operands, operators, result, errno, ret,
                           errtype, errcol, seen>>
    /\ UNCHANGED <<token_pos, paren_depth, paren_pos, prev_chr, fault, log,
                   pushed, budget, calls_left>>

\* Lines 183-190: one iteration of the end-of-string loop.
DrainStep ==
    /\ pc = "drain"
    /\ ~stack_is_empty(operators)
    /\ \E garbage \in Indeterminate :
        LET p == stack_pop_item(operators)
            r == apply_operator(p.item.val.txt[1], p.item.flags, operands,
                                garbage)
        IN /\ log' = Append(log, Entry(p.item.val.txt[1], p.item.flags, r.ok, pc))
           /\ fault' = (fault \/ p.fault \/ r.fault)
           /\ IF ~r.ok
              THEN Exit(str, "ERROR_SYNTAX_STACK", NO_COL_NUM, result)
              ELSE /\ operands' = r.operands
                   /\ operators' = p.rest
                   /\ UNCHANGED <<str, result, errno, pc, ret, errtype,
                                  errcol, seen>>
    /\ UNCHANGED <<token_pos, paren_depth, paren_pos, prev_chr, pushed,
                   budget, calls_left>>

\* Lines 192-202: save the final result, free the stacks, return.
SaveResult ==
    /\ pc = "drain"
    /\ stack_is_empty(operators)
    /\ IF stack_is_empty(operands)
       THEN /\ Exit(str, "ERROR_NO_INPUT", NO_COL_NUM, result)
            /\ UNCHANGED fault
       ELSE LET p == stack_pop_item(operands)
            IN /\ Exit(str, "SUCCESS", errcol, strtod_unalloc(p.item.val))
               /\ fault' = (fault \/ p.fault)
    /\ UNCHANGED <<token_pos, paren_depth, paren_pos, prev_chr, log, pushed,
                   budget, calls_left>>

\* The caller evaluates another string: a fresh call, the same errno.
NewCall ==
    /\ pc = "done"
    /\ calls_left > 0
    /\ calls_left' = calls_left - 1
    /\ str' = <<>>
    /\ token_pos' = -1
    /\ paren_depth' = 0
    /\ paren_pos' = -1
    /\ prev_chr' = NUL
    /\ operands' = <<>>
    /\ operators' = <<>>
    /\ result' = Uninit
    /\ pc' = "scan"
    /\ ret' = Uninit
    /\ errtype' = "SUCCESS"
    /\ errcol' = NO_COL_NUM
    /\ log' = <<>>
    /\ pushed' = 0
    /\ UNCHANGED <<errno, fault, budget, seen>>

Start(chars, calls) ==
    /\ str = <<>>
    /\ token_pos = -1
    /\ paren_depth = 0
    /\ paren_pos = -1
    /\ prev_chr = NUL
    /\ operands = <<>>
    /\ operators = <<>>
    /\ result = Uninit
    /\ errno = "SUCCESS"
    /\ pc = "scan"
    /\ ret = Uninit
    /\ errtype = "SUCCESS"
    /\ errcol = NO_COL_NUM
    /\ fault = FALSE
    /\ log = <<>>
    /\ pushed = 0
    /\ budget = chars
    /\ calls_left = calls
    /\ seen = [k \in {} |-> 0]

Init == Start(MaxLen, 0)

InitCalls == Start(MaxCallChars, MaxCalls - 1)

Next ==
    \/ ScanSpace
    \/ ScanOperand
    \/ ScanOperator
    \/ ScanLeftParen
    \/ ScanRightParen
    \/ ScanUnrecognized
    \/ ScanEnd
    \/ CheckParen
    \/ DrainStep
    \/ SaveResult

NextCalls == Next \/ NewCall

Spec == Init /\ [][Next]_vars

SpecCalls == InitCalls /\ [][NextCalls]_vars

(***************************************************************************)
(* Reading the input back: what was scanned, independently of the stacks.  *)
(***************************************************************************)
Terminators == {NUL, "\n"}

\* The scan read the end of the input.
Completed == str # <<>> /\ str[Len(str)] \in Terminators

\* The input without its terminator.
Body == IF Completed THEN SubSeq(str, 1, Len(str) - 1) ELSE str

ValidLiteral(txt) ==
    /\ txt # <<>>
    /\ \A k \in 1..Len(txt) : is_operand(txt[k])
    /\ txt # <<".">>
    /\ Count(txt, ".") <= 1

Num(txt) == [kind |-> "num", txt |-> txt]
Op(c) == [kind |-> "op", txt |-> <<c>>]

\* The tokens of a blank-free string: maximal operand spans, and one token
\* per other character.
RECURSIVE Tokens(_, _, _)
Tokens(s, cur, acc) ==
    IF s = <<>> THEN (IF cur = <<>> THEN acc ELSE Append(acc, Num(cur)))
    ELSE IF is_operand(Head(s)) THEN Tokens(Tail(s), Append(cur, Head(s)), acc)
    ELSE Tokens(Tail(s), <<>>,
                Append(IF cur = <<>> THEN acc ELSE Append(acc, Num(cur)),
                       Op(Head(s))))

BinaryAt(ts, k) == ts[k].kind = "op" /\ k > 1 /\ ts[k - 1].kind = "num"

\* operand (binop operand)*, each operand optionally preceded by signs.
WellFormed(ts) ==
    /\ ts # <<>>
    /\ ts[Len(ts)].kind = "num"
    /\ \A k \in 1..Len(ts) :
          IF ts[k].kind = "num" THEN ValidLiteral(ts[k].txt)
          ELSE IF BinaryAt(ts, k) THEN ts[k].txt[1] \in {"+", "-", "*", "/", "^"}
          ELSE ts[k].txt[1] \in {"+", "-"}

LastBinary(ts, ops) ==
    LET at == {k \in 1..Len(ts) : BinaryAt(ts, k) /\ ts[k].txt[1] \in ops}
    IN IF at = {} THEN 0 ELSE CHOOSE k \in at : \A h \in at : h <= k

\* Standard evaluation of a well-formed token list: + - bind loosest, then
\* * /, then the prefix signs, then ^; equal precedence groups from the left.
RECURSIVE StdEval(_)
StdEval(ts) ==
    LET a == LastBinary(ts, {"+", "-"})
        m == LastBinary(ts, {"*", "/"})
        x == LastBinary(ts, {"^"})
        Split(k) == BinaryResult(ts[k].txt[1], StdEval(SubSeq(ts, 1, k - 1)),
                                 StdEval(SubSeq(ts, k + 1, Len(ts))), Untracked)
    IN IF a # 0 THEN Split(a)
       ELSE IF m # 0 THEN Split(m)
       ELSE IF ts[1].kind = "op"
       THEN (IF ts[1].txt[1] = "-" THEN Neg(StdEval(Tail(ts)))
             ELSE StdEval(Tail(ts)))
       ELSE IF x # 0 THEN Split(x)
       ELSE strtod_unalloc(Text(ts[1].txt))

ParenFree(s) == \A k \in 1..Len(s) : s[k] \notin {"(", ")", " ", "!"}

(***************************************************************************)
(* C1: for every well-formed expression without parentheses, the call      *)
(* succeeds and returns the value of standard evaluation: ^ above * /      *)
(* above + -, equal precedence from left to right.                         *)
(***************************************************************************)
C1_StandardEvaluation ==
    (pc = "done" /\ Completed /\ ParenFree(Body)
        /\ WellFormed(Tokens(Body, <<>>, <<>>)))
    => (errtype = "SUCCESS" /\ ret = StdEval(Tokens(Body, <<>>, <<>>)))

(***************************************************************************)
(* C2: a call that ends in an error has set errno to the error's code and  *)
(* returns zero.                                                           *)
(***************************************************************************)
C2_ErrorReturnsZero ==
    (pc = "done" /\ errtype # "SUCCESS") => (errno = errtype /\ ret = Zero)

SyntaxKinds == {"ERROR_SYNTAX", "ERROR_SYNTAX_STACK", "ERROR_SYNTAX_OPERAND"}

(***************************************************************************)
(* C3: when the operator stack has been drained and more than one operand  *)
(* remains, the call ends in a syntax error instead of returning one of    *)
(* the operands.                                                           *)
(***************************************************************************)
C3_LeftoverOperandsRejected ==
    [][(pc = "drain" /\ stack_is_empty(operators) /\ Len(operands) > 1)
          => (pc' = "done" /\ errtype' \in SyntaxKinds)]_vars

(***************************************************************************)
(* C4: the outcome of a call, as its caller observes it (the error kind    *)
(* in errno, and the numeric result when that kind is success), depends    *)
(* only on the input string: a later call on the same string observes      *)
(* what the first call on it observed.                                     *)
(***************************************************************************)
C4_SameInputSameOutcome ==
    (pc = "done" /\ str \in DOMAIN seen)
    => /\ errno = seen[str].errno
       /\ (errno = "SUCCESS" => ret = seen[str].result)

(***************************************************************************)
(* C5: no pop or top is ever executed on an empty stack; a failed          *)
(* apply_operator ends the call at once, with ERROR_SYNTAX at the current  *)
(* column during the scan and ERROR_SYNTAX_STACK without a column in the   *)
(* end-of-input drain; ERROR_NO_INPUT is raised only when no operand was   *)
(* ever pushed and nothing was applied, and a call that pushed no operand  *)
(* never succeeds.                                                         *)
(***************************************************************************)
C5_NoPopOnEmpty ==
    /\ ~fault
    /\ \A k \in 1..Len(log) :
          ~log[k].ok =>
             /\ k = Len(log)
             /\ pc = "done"
             /\ IF log[k].at = "scan"
                THEN errtype = "ERROR_SYNTAX" /\ errcol = Len(str) - 1
                ELSE errtype = "ERROR_SYNTAX_STACK" /\ errcol = NO_COL_NUM
    /\ (pc = "done" /\ errtype = "ERROR_NO_INPUT") => (pushed = 0 /\ log = <<>>)
    /\ (pc = "done" /\ pushed = 0) => errtype # "SUCCESS"

\* A binary operator found one operand only, at a right parenthesis.
C5_Witness ==
    /\ pc = "done"
    /\ errtype = "ERROR_SYNTAX"
    /\ pushed >= 1
    /\ log # <<>>
    /\ ~log[Len(log)].ok /\ ~log[Len(log)].unary
    /\ ~fault

(***************************************************************************)
(* C6, as claimed: during an evaluation the operand stack holds at most    *)
(* (operands pushed) - (operators applied successfully, unary or binary).  *)
(***************************************************************************)
C6_AsClaimed ==
    pc # "done" =>
        Len(operands) <= pushed - Cardinality({k \in 1..Len(log) : log[k].ok})

(***************************************************************************)
(* C6, amended: during an evaluation the operand stack holds at most       *)
(* (operands pushed) - (binary operators applied successfully); a unary    *)
(* application replaces the top operand and leaves the size unchanged.     *)
(***************************************************************************)
C6_BinaryOnly ==
    pc # "done" =>
        Len(operands) <= pushed - Cardinality({k \in 1..Len(log) :
                                                 log[k].ok /\ ~log[k].unary})

C6_Witness ==
    /\ pc = "drain"
    /\ \E k \in 1..Len(log) : log[k].ok /\ log[k].unary
    /\ \E k \in 1..Len(log) : log[k].ok /\ ~log[k].unary
    /\ Len(operands) = 1

(***************************************************************************)
(* C7.  The scan ended with a nonzero parenthesis depth.                   *)
(***************************************************************************)
EndedUnclosed ==
    /\ pc = "done"
    /\ Completed
    /\ errtype # "ERROR_SYNTAX_OPERAND"
    /\ paren_depth # 0

FirstOpenParen(s) ==
    (CHOOSE k \in 1..Len(s) : s[k] = "(" /\ \A h \in 1..(k - 1) : s[h] # "(") - 1

\* The columns of the parentheses still open after s, outermost first.
RECURSIVE Unclosed(_, _, _)
Unclosed(s, col, open) ==
    IF s = <<>> THEN open
    ELSE IF Head(s) = "(" THEN Unclosed(Tail(s), col + 1, Append(open, col))
    ELSE IF Head(s) = ")" /\ open # <<>>
    THEN Unclosed(Tail(s), col + 1, SubSeq(open, 1, Len(open) - 1))
    ELSE Unclosed(Tail(s), col + 1, open)

NoDrainApplied == \A k \in 1..Len(log) : log[k].at # "drain"

(***************************************************************************)
(* C7, as claimed: when the scan ends with a nonzero depth the call fails  *)
(* with ERROR_LEFT_PAREN at the column of the first open parenthesis of    *)
(* the input, and the drain has applied nothing.                           *)
(***************************************************************************)
C7_AsClaimed ==
    EndedUnclosed =>
        /\ errtype = "ERROR_LEFT_PAREN"
        /\ errcol = FirstOpenParen(Body)
        /\ NoDrainApplied

(***************************************************************************)
(* C7, amended: when the scan ends with a nonzero depth the call fails     *)
(* with ERROR_LEFT_PAREN at the column of the outermost parenthesis that   *)
(* is still open (the one that last raised the depth from 0 to 1), and     *)
(* the drain has applied nothing.                                          *)
(***************************************************************************)
C7_OutermostUnclosed ==
    EndedUnclosed =>
        /\ errtype = "ERROR_LEFT_PAREN"
        /\ errcol = Unclosed(Body, 0, <<>>)[1]
        /\ NoDrainApplied

\* An earlier group was closed, and a nested one is open at the end.
C7_Witness ==
    /\ EndedUnclosed
    /\ errtype = "ERROR_LEFT_PAREN"
    /\ errcol # FirstOpenParen(Body)
    /\ paren_depth = 2

(***************************************************************************)
(* C8.  Unary operators around one operand, and an operator after `x!`.    *)
(***************************************************************************)
RECURSIVE LeadSigns(_)
LeadSigns(s) ==
    IF s # <<>> /\ Head(s) \in {"+", "-"} THEN 1 + LeadSigns(Tail(s)) ELSE 0

RECURSIVE TrailBangs(_)
TrailBangs(s) ==
    IF s # <<>> /\ s[Len(s)] = "!"
    THEN 1 + TrailBangs(SubSeq(s, 1, Len(s) - 1)) ELSE 0

\* signs, one literal, factorials: the literal between them.
Middle(s) == SubSeq(s, LeadSigns(s) + 1, Len(s) - TrailBangs(s))

RECURSIVE FactIter(_, _)
FactIter(m, v) == IF m = 0 THEN v ELSE FactIter(m - 1, Gamma1(v))

RECURSIVE ApplySigns(_, _)
ApplySigns(signs, v) ==
    IF signs = <<>> THEN v
    ELSE IF Head(signs) = "-" THEN Neg(ApplySigns(Tail(signs), v))
    ELSE ApplySigns(Tail(signs), v)

UnaryValue(s) ==
    ApplySigns(SubSeq(s, 1, LeadSigns(s)),
               FactIter(TrailBangs(s), strtod_unalloc(Text(Middle(s)))))

NonBlank(s) == SelectSeq(s, LAMBDA c : c # " ")

LastToken(s) == LET ts == Tokens(s, <<>>, <<>>) IN ts[Len(ts)]

BinarySymbols == {"+", "-", "*", "/", "^"}

\* The tokens x ! c y of a blank-free body, c a binary symbol.
FactThenBinary(ts) ==
    /\ Len(ts) = 4
    /\ ts[1].kind = "num" /\ ValidLiteral(ts[1].txt)
    /\ ts[2] = Op("!")
    /\ ts[3].kind = "op" /\ ts[3].txt[1] \in BinarySymbols
    /\ ts[4].kind = "num" /\ ValidLiteral(ts[4].txt)

(***************************************************************************)
(* C8: (a) an expression of n prefix signs, one operand x and m postfix !  *)
(* evaluates to the signs applied to the m-fold factorial of x; (b) a      *)
(* non-! operator scanned right after `x!` is pushed as binary, after the  *)
(* factorial was applied to x; (c) `x!cy` evaluates to (x!) c y.           *)
(***************************************************************************)
C8_UnaryInnermostFirst ==
    /\ (pc = "done" /\ Completed /\ ValidLiteral(Middle(Body)))
          => (errtype = "SUCCESS" /\ ret = UnaryValue(Body))
    /\ LET nb == NonBlank(str)
           n == Len(nb)
       IN (/\ pc = "scan"
           /\ n >= 3
           /\ nb[n] \in BinarySymbols
           /\ nb[n - 1] = "!"
           /\ is_operand(nb[n - 2]))
          => /\ stack_top_item(operators) = [val |-> Text(<<nb[n]>>),
                                             flags |-> FALSE]
             /\ log # <<>>
             /\ log[Len(log)] = Entry("!", TRUE, TRUE, "scan")
             /\ strtod_unalloc(stack_top(operands)) =
                   Gamma1(strtod_unalloc(Text(LastToken(SubSeq(nb, 1, n - 2)).txt)))
    /\ LET ts == Tokens(Body, <<>>, <<>>)
       IN (pc = "done" /\ Completed /\ FactThenBinary(ts))
          => /\ errtype = "SUCCESS"
             /\ ret = BinaryResult(ts[3].txt[1],
                                   Gamma1(strtod_unalloc(Text(ts[1].txt))),
                                   strtod_unalloc(Text(ts[4].txt)), Untracked)

\* "-3!" and the like: a sign and a factorial around 3 give -6.
C8_Witness ==
    /\ pc = "done"
    /\ Completed
    /\ ValidLiteral(Middle(Body))
    /\ LeadSigns(Body) >= 1
    /\ TrailBangs(Body) >= 1
    /\ ret = <<-6, 1>>

(***************************************************************************)
(* C9: right after a non-unary operator c was pushed, the entry directly   *)
(* below it is never an operator of the same or higher precedence than c   *)
(* (stated for a binary entry below c, which the tie-break always lets the *)
(* resolver apply).                                                        *)
(***************************************************************************)
C9_NoSameOrHigherBelow ==
    (/\ pc = "scan"
     /\ is_operator(prev_chr)
     /\ Len(operators) >= 2
     /\ ~stack_top_item(operators).flags
     /\ ~operators[Len(operators) - 1].flags)
    => LET c == stack_top(operators)
           below == operators[Len(operators) - 1].val
       IN ~(OpRank(below) \in 0..2 /\ OpRank(below) <= OpRank(c))

(***************************************************************************)
(* C10, its parts: a ( entry is never passed to apply_operator; the parenthesis depth *)
(* is the number of ( entries on the operator stack; the drain runs with   *)
(* no ( on the stack; a scanned operator leaves every ( entry in place;    *)
(* and a ( entry leaves the stack only when a ) is processed at nonzero    *)
(* depth, which removes exactly one and decrements the depth by one.       *)
(***************************************************************************)
ParenEntries(ops) == {k \in 1..Len(ops) : ops[k].val.txt[1] = "("}

C10_Inv ==
    /\ \A k \in 1..Len(log) : log[k].op # "("
    /\ pc # "done" => paren_depth = Cardinality(ParenEntries(operators))
    /\ pc = "drain" => ParenEntries(operators) = {}

C10_Step ==
    pc' # "done" =>
       /\ (Len(str') = Len(str) + 1 /\ is_operator(str'[Len(str')]))
             => /\ ParenEntries(operators') = ParenEntries(operators)
                /\ \A k \in ParenEntries(operators) :
                      operators'[k] = operators[k]
       /\ Cardinality(ParenEntries(operators')) <
             Cardinality(ParenEntries(operators))
             => /\ Len(str') = Len(str) + 1
                /\ str'[Len(str')] = ")"
                /\ paren_depth > 0
                /\ paren_depth' = paren_depth - 1
                /\ Cardinality(ParenEntries(operators')) =
                      Cardinality(ParenEntries(operators)) - 1

\* C10: the parenthesis depth always counts the ( entries, no ( is ever
\* applied or drained, and only a ) at nonzero depth removes a ( entry,
\* exactly one, decrementing the depth by one.
C10_ParenScope == []C10_Inv /\ [][C10_Step]_vars

\* A group that held an applied operator was closed, and the drain began.
C10_Witness ==
    /\ pc = "drain"
    /\ Count(str, "(") >= 1
    /\ log # <<>>
    /\ paren_depth = 0

====
